---- MODULE Spec2Model ----
(***************************************************************************)
(* A model of annoying/fields.py.                                          *)
(*                                                                         *)
(*  - AutoSingleRelatedObjectDescriptor.__get__ : the accessor of an       *)
(*    AutoOneToOneField, which creates the related record on first read.   *)
(*    Each reader holds its own in-memory instance of every record R; the  *)
(*    persisted store is shared.  An access is the sequence of steps       *)
(*    lookup, get_or_create (get, insert, get again), lookup.              *)
(*  - JSONField : the conversions between a structured value and the text  *)
(*    column that stores it.                                               *)
(***************************************************************************)
EXTENDS Integers, Sequences, FiniteSets, TLC

\* Bounds of the model.
NumRows == 2
MaxAccesses == 2
MaxLen == 2
MaxTextLen == 3

Readers == {"A", "B"}
Rows == 1..NumRows

VARIABLES
    store,      \* the persisted related records (the related model's table)
    nextPk,     \* the table's primary key sequence
    cache,      \* cache[p][r]: the related object cached on p's instance of r
    fetches,    \* fetches[p]: in-memory objects p has materialised so far
    pc,         \* pc[p]: where reader p stands in __get__
    acc,        \* acc[p]: the access p is performing
    last,       \* last[p]: the outcome of the access p completed last
    returned,   \* returned[p][r]: every object an access of p on r returned
    accesses,   \* accesses[p]: accesses p has started
    raced,      \* rows on which both readers saw "absent" at the same time
    faulted     \* rows for which an insert failed for a reason of the store's own

VARIABLES
    jfield,     \* the JSONField: its configuration
    column,     \* the text column of the row last written, {} when none
    saved,      \* the value whose save wrote the column, {} when none
    jop,        \* the method of the field called last
    jarg,       \* its argument
    jres        \* what it returned or raised

jsonVars == <<jfield, column, saved, jop, jarg, jres>>

relVars == <<store, nextPk, cache, fetches, pc, acc, last, returned, accesses,
             raced, faulted>>

----------------------------------------------------------------------------
(* The persisted store *)

\* The related records whose back-reference points to r.
Related(st, r) == {x \in st : x.owner = r}

\* A back-reference column without the unique constraint (a plain foreign key).
NoUniqueOwner == FALSE

\* fields.py:37  AutoOneToOneField is a OneToOneField: the back-reference
\* column is unique, so an insert for an owner that has a record is refused.
UniqueOwner == TRUE

\* fields.py:28  the keyword arguments of get_or_create: only the
\* back-reference field, self.related.field.name.
CreateKwargs == {"owner"}

\* INSERT of a record for r created with kwargs kw by reader p.
NewRecord(r, kw, p) == [pk |-> nextPk, owner |-> r, kwargs |-> kw, creator |-> p]

\* An object materialised in memory by reader p: its identity and its row.
NewObject(p, rec) == [oid |-> <<p, fetches[p] + 1>>, rec |-> rec]

----------------------------------------------------------------------------
(* super().__get__: the standard lookup of the related object (lines 24-25  *)
(* and 33-34).  A cached object is returned as it is; otherwise the store   *)
(* is queried, the object found is cached on the instance and returned, and *)
(* DoesNotExist is raised when there is none.                               *)

SuperGet(p, r) ==
    IF cache[p][r] # {}
    THEN [kind |-> "hit", obj |-> cache[p][r], fetched |-> 0]
    ELSE LET rows == Related(store, r) IN
         IF rows = {} THEN [kind |-> "DoesNotExist", obj |-> {}, fetched |-> 0]
         ELSE IF Cardinality(rows) > 1
              THEN [kind |-> "MultipleObjectsReturned", obj |-> {}, fetched |-> 0]
              ELSE [kind |-> "hit",
                    obj |-> {NewObject(p, CHOOSE x \in rows : TRUE)},
                    fetched |-> 1]

----------------------------------------------------------------------------
(* The control flow of __get__ (lines 23-34) *)

\* A __get__ that calls get_or_create whatever the lookup found.
AfterLookupAlwaysCreates(kind) ==
    CASE kind \in {"hit", "DoesNotExist"} -> "get_or_create"
      [] OTHER -> "raise"

\* lines 23-26: return the lookup's result; on DoesNotExist go on to create.
AfterLookup(kind) ==
    CASE kind = "hit" -> "return"
      [] kind = "DoesNotExist" -> "get_or_create"
      [] OTHER -> "raise"

\* A __get__ that returns get_or_create's object directly (what the comment
\* at lines 30-32 warns against).
AfterGetOrCreateReturnsObj(ok) == IF ok THEN "return_obj" ELSE "raise"

\* A __get__ that swallows the failure of get_or_create and tries it again.
AfterGetOrCreateRetries(ok) == IF ok THEN "relookup" ELSE "get_or_create"

\* lines 28-34: get_or_create is called once; its exception propagates; when
\* it succeeds its result is dropped and the lookup is run again.
AfterGetOrCreate(ok) == IF ok THEN "relookup" ELSE "raise"

\* lines 33-34: the second lookup is outside the try: whatever it raises
\* propagates.
AfterRelookup(kind) == IF kind = "hit" THEN "return" ELSE "raise"

----------------------------------------------------------------------------
NoAccess == [row |-> 0, absent |-> FALSE, existing |-> {}, gocCalls |-> 0,
             inserted |-> 0, failed |-> FALSE, gocObj |-> {}, prior |-> 0,
             storeChanged |-> FALSE]

NoOutcome == [row |-> 0, kind |-> "none", exc |-> "", obj |-> {},
              absent |-> FALSE, existing |-> {}, gocCalls |-> 0,
              inserted |-> 0, failed |-> FALSE, prior |-> 0,
              storeChanged |-> FALSE]

Outcome(a, kind, exc, obj) ==
    [row |-> a.row, kind |-> kind, exc |-> exc, obj |-> obj,
     absent |-> a.absent, existing |-> a.existing, gocCalls |-> a.gocCalls,
     inserted |-> a.inserted, failed |-> a.failed, prior |-> a.prior,
     storeChanged |-> a.storeChanged]

RelInit ==
    /\ store \in {{[pk |-> r, owner |-> r, kwargs |-> {"owner", "extra"},
                    creator |-> "other"] : r \in S} : S \in SUBSET Rows}
    /\ nextPk = NumRows + 1
    /\ cache = [p \in Readers |-> [r \in Rows |-> {}]]
    /\ fetches = [p \in Readers |-> 0]
    /\ pc = [p \in Readers |-> "idle"]
    /\ acc = [p \in Readers |-> NoAccess]
    /\ last = [p \in Readers |-> NoOutcome]
    /\ returned = [p \in Readers |-> [r \in Rows |-> {}]]
    /\ accesses = [p \in Readers |-> 0]
    /\ raced = {}
    /\ faulted = {}
    /\ jfield = [null |-> FALSE, has_default |-> FALSE, callable |-> FALSE,
                 default |-> [t |-> "None", n |-> 0, s |-> <<>>, xs |-> <<>>, kv |-> {}],
                 serializer |-> "dumps", deserializer |-> "loads"]
    /\ column = {}
    /\ saved = {}
    /\ jop = "init"
    /\ jarg = {}
    /\ jres = [kind |-> "none",
               v |-> [t |-> "None", n |-> 0, s |-> <<>>, xs |-> <<>>, kv |-> {}],
               exc |-> "", via |-> "none", arg |-> {}]

\* The access of p ends: it returns obj or raises exc.
Finish(p, a, kind, exc, obj) ==
    /\ pc' = [pc EXCEPT ![p] = "idle"]
    /\ acc' = [acc EXCEPT ![p] = NoAccess]
    /\ last' = [last EXCEPT ![p] = Outcome(a, kind, exc, obj)]
    /\ returned' = [returned EXCEPT ![p][a.row] = @ \cup obj]

\* The access of p goes on at step next.
Continue(p, a, next) ==
    /\ pc' = [pc EXCEPT ![p] = next]
    /\ acc' = [acc EXCEPT ![p] = a]
    /\ UNCHANGED <<last, returned>>

\* Reader q is past a lookup that found r absent and has not created yet.
SawAbsent(q, r) == pc[q] \in {"goc_get", "goc_insert"} /\ acc[q].row = r

\* lines 20-26: reader p reads the accessor on its instance of r: the first
\* lookup.
Lookup(p, r) ==
    /\ pc[p] = "idle"
    /\ accesses[p] < MaxAccesses
    /\ accesses' = [accesses EXCEPT ![p] = @ + 1]
    /\ LET res == SuperGet(p, r)
           a == [NoAccess EXCEPT !.row = r,
                                 !.absent = (Related(store, r) = {}),
                                 !.existing = Related(store, r),
                                 !.prior = Cardinality(returned[p][r])]
           next == AfterLookup(res.kind)
       IN /\ cache' = [cache EXCEPT ![p][r] = res.obj]
          /\ fetches' = [fetches EXCEPT ![p] = @ + res.fetched]
          /\ CASE next = "return" -> Finish(p, a, "return", "", res.obj)
               [] next = "get_or_create" ->
                    Continue(p, [a EXCEPT !.gocCalls = @ + 1], "goc_get")
               [] OTHER -> Finish(p, a, "raise", res.kind, {})
          /\ raced' = IF /\ res.kind = "DoesNotExist"
                         /\ next = "get_or_create"
                         /\ \A q \in Readers \ {p} : SawAbsent(q, r)
                      THEN raced \cup {r} ELSE raced
    /\ UNCHANGED <<store, nextPk, faulted>>
    /\ UNCHANGED jsonVars

\* What follows the end of get_or_create (line 28), which succeeded with
\* object obj or failed with exc.
GetOrCreateDone(p, a, ok, exc, obj) ==
    LET next == AfterGetOrCreate(ok)
        b == [a EXCEPT !.failed = @ \/ ~ok, !.gocObj = obj]
    IN CASE next = "relookup" -> Continue(p, b, "relookup")
         [] next = "get_or_create" ->
              Continue(p, [b EXCEPT !.gocCalls = @ + 1, !.gocObj = {}], "goc_get")
         [] next = "return_obj" -> Finish(p, b, "return", "", obj)
         [] OTHER -> Finish(p, b, "raise", exc, {})

\* line 28, get_or_create: first a get by the back-reference.
GocGet(p) ==
    /\ pc[p] = "goc_get"
    /\ LET r == acc[p].row
           rows == Related(store, r)
       IN IF rows = {}
          THEN /\ Continue(p, acc[p], "goc_insert")
               /\ UNCHANGED fetches
          ELSE /\ GetOrCreateDone(p, acc[p], TRUE, "",
                                  {NewObject(p, CHOOSE x \in rows : TRUE)})
               /\ fetches' = [fetches EXCEPT ![p] = @ + 1]
    /\ UNCHANGED <<store, nextPk, cache, accesses, raced, faulted>>
    /\ UNCHANGED jsonVars

\* line 28, get_or_create: nothing was found, so insert a record with only
\* the back-reference given.  The insert is refused when the owner has a
\* record by now (the unique column), or fails for a reason of the store's
\* own (dbOk = FALSE); either way get_or_create then gets once more.
GocInsert(p) ==
    /\ pc[p] = "goc_insert"
    /\ \E dbOk \in BOOLEAN :
         LET r == acc[p].row
             refused == UniqueOwner /\ Related(store, r) # {}
             rec == NewRecord(r, CreateKwargs, p)
         IN IF dbOk /\ ~refused
            THEN /\ store' = store \cup {rec}
                 /\ nextPk' = nextPk + 1
                 /\ UNCHANGED faulted
                 /\ fetches' = [fetches EXCEPT ![p] = @ + 1]
                 /\ GetOrCreateDone(p, [acc[p] EXCEPT !.inserted = @ + 1,
                                                      !.storeChanged = TRUE],
                                    TRUE, "", {NewObject(p, rec)})
            ELSE /\ Continue(p, acc[p], "goc_reget")
                 /\ faulted' = IF dbOk THEN faulted ELSE faulted \cup {r}
                 /\ UNCHANGED <<store, nextPk, fetches>>
    /\ UNCHANGED <<cache, accesses, raced>>
    /\ UNCHANGED jsonVars

\* line 28, get_or_create: after a failed insert, get again; when there is
\* still nothing the insert's error is raised.
GocReget(p) ==
    /\ pc[p] = "goc_reget"
    /\ LET r == acc[p].row
           rows == Related(store, r)
       IN IF rows = {}
          THEN /\ GetOrCreateDone(p, acc[p], FALSE, "DatabaseError", {})
               /\ UNCHANGED fetches
          ELSE /\ GetOrCreateDone(p, acc[p], TRUE, "",
                                  {NewObject(p, CHOOSE x \in rows : TRUE)})
               /\ fetches' = [fetches EXCEPT ![p] = @ + 1]
    /\ UNCHANGED <<store, nextPk, cache, accesses, raced, faulted>>
    /\ UNCHANGED jsonVars

\* lines 33-34: the lookup again, whose result is the one cached.
Relookup(p) ==
    /\ pc[p] = "relookup"
    /\ LET r == acc[p].row
           res == SuperGet(p, r)
           next == AfterRelookup(res.kind)
       IN /\ cache' = [cache EXCEPT ![p][r] = res.obj]
          /\ fetches' = [fetches EXCEPT ![p] = @ + res.fetched]
          /\ IF next = "return"
             THEN Finish(p, acc[p], "return", "", res.obj)
             ELSE Finish(p, acc[p], "raise", res.kind, {})
    /\ UNCHANGED <<store, nextPk, accesses, raced, faulted>>
    /\ UNCHANGED jsonVars

RelNext ==
    \/ \E p \in Readers, r \in Rows : Lookup(p, r)
    \/ \E p \in Readers : GocGet(p)
    \/ \E p \in Readers : GocInsert(p)
    \/ \E p \in Readers : GocReget(p)
    \/ \E p \in Readers : Relookup(p)

SpecRel == RelInit /\ [][RelNext]_<<relVars, jsonVars>>

----------------------------------------------------------------------------
(* Python values.  Every value is a record of one shape: t is its type, n  *)
(* the number of an int or bool, s the characters of a str or bytes, xs    *)
(* the items of a list or tuple, kv the members of a dict (a set of        *)
(* key/value pairs with distinct keys, so that equality is Python's dict   *)
(* equality).  A text is a sequence of characters.                         *)

Val(t, n, s, xs, kv) == [t |-> t, n |-> n, s |-> s, xs |-> xs, kv |-> kv]
None == Val("None", 0, <<>>, <<>>, {})
PyBool(b) == Val("bool", IF b THEN 1 ELSE 0, <<>>, <<>>, {})
PyInt(n) == Val("int", n, <<>>, <<>>, {})
PyStr(s) == Val("str", 0, s, <<>>, {})
PyBytes(s) == Val("bytes", 0, s, <<>>, {})
PyList(xs) == Val("list", 0, <<>>, xs, {})
PyTuple(xs) == Val("tuple", 0, <<>>, xs, {})
PyDict(kv) == Val("dict", 0, <<>>, <<>>, kv)
Member(k, v) == [k |-> k, v |-> v]
EmptyStr == PyStr(<<>>)

\* What a call did: it returned v or raised exc; via names the conversion it
\* handed the value to (the serializer, the deserializer, the text field's
\* own conversion, or none) and arg the value it handed over.
Ret(v, via, arg) == [kind |-> "return", v |-> v, exc |-> "", via |-> via, arg |-> arg]
Raise(exc, via, arg) == [kind |-> "raise", v |-> None, exc |-> exc, via |-> via, arg |-> arg]

----------------------------------------------------------------------------
(* json.dumps, as the field's default serializer calls it (line 76):       *)
(* sort_keys=True, indent=2, separators=(',', ': ').                       *)

Digit == <<"0", "1", "2", "3", "4", "5", "6", "7", "8", "9">>

RECURSIVE NatText(_)
NatText(n) == IF n < 10 THEN <<Digit[n + 1]>>
              ELSE NatText(n \div 10) \o <<Digit[(n % 10) + 1]>>

IntText(n) == IF n < 0 THEN <<"-">> \o NatText(-n) ELSE NatText(n)

\* The code points of the characters that strings of the model are made of.
Code == ("\n" :> 10) @@ ("\"" :> 34) @@ ("1" :> 49) @@ ("\\" :> 92)
        @@ ("a" :> 97) @@ ("b" :> 98)

\* A string's characters between the quotes: the quote, the backslash and
\* the newline are escaped.
EscapeChar(c) ==
    CASE c = "\"" -> <<"\\", "\"">>
      [] c = "\\" -> <<"\\", "\\">>
      [] c = "\n" -> <<"\\", "n">>
      [] OTHER -> <<c>>

RECURSIVE EscapeChars(_)
EscapeChars(s) == IF s = <<>> THEN <<>>
                  ELSE EscapeChar(Head(s)) \o EscapeChars(Tail(s))

EncodeString(s) == <<"\"">> \o EscapeChars(s) \o <<"\"">>

\* Python's order of two strings: by code point, a proper prefix first.
RECURSIVE StrLess(_, _)
StrLess(a, b) ==
    IF b = <<>> THEN FALSE
    ELSE IF a = <<>> THEN TRUE
    ELSE IF Head(a) # Head(b) THEN Code[Head(a)] < Code[Head(b)]
    ELSE StrLess(Tail(a), Tail(b))

\* sort_keys=True: the members in the order of their keys.
RECURSIVE SortedMembers(_)

FirstMember(kv) == CHOOSE x \in kv : \A y \in kv \ {x} : StrLess(x.k, y.k)

FirstThenRest(kv, m) == <<m>> \o SortedMembers(kv \ {m})

SortedMembers(kv) ==
    IF kv = {} THEN <<>> ELSE FirstThenRest(kv, FirstMember(kv))

RECURSIVE Spaces(_)
Spaces(n) == IF n = 0 THEN <<>> ELSE <<" ">> \o Spaces(n - 1)

\* indent: a line break and the indentation of the level, or nothing.
NewlineIndent(indent, level) ==
    IF indent < 0 THEN <<>> ELSE <<"\n">> \o Spaces(indent * level)

RECURSIVE Encode(_, _, _, _), EncodeItems(_, _, _, _, _), EncodeMembers(_, _, _, _, _)

\* The text of v at nesting level `level`; indent < 0 is no indentation;
\* sep is the item separator.
Encode(v, indent, sep, level) ==
    CASE v.t = "None" -> <<"n", "u", "l", "l">>
      [] v.t = "bool" -> IF v.n = 1 THEN <<"t", "r", "u", "e">>
                         ELSE <<"f", "a", "l", "s", "e">>
      [] v.t = "int" -> IntText(v.n)
      [] v.t = "str" -> EncodeString(v.s)
      [] v.t \in {"list", "tuple"} ->
           IF v.xs = <<>> THEN <<"[", "]">>
           ELSE <<"[">> \o NewlineIndent(indent, level + 1)
                \o EncodeItems(v.xs, 1, indent, sep, level + 1)
                \o NewlineIndent(indent, level) \o <<"]">>
      [] v.t = "dict" ->
           IF v.kv = {} THEN <<"{", "}">>
           ELSE <<"{">> \o NewlineIndent(indent, level + 1)
                \o EncodeMembers(SortedMembers(v.kv), 1, indent, sep, level + 1)
                \o NewlineIndent(indent, level) \o <<"}">>

EncodeItems(xs, i, indent, sep, level) ==
    Encode(xs[i], indent, sep, level)
    \o (IF i = Len(xs) THEN <<>>
        ELSE sep \o NewlineIndent(indent, level)
             \o EncodeItems(xs, i + 1, indent, sep, level))

EncodeMembers(ms, i, indent, sep, level) ==
    EncodeString(ms[i].k) \o <<":", " ">> \o Encode(ms[i].v, indent, sep, level)
    \o (IF i = Len(ms) THEN <<>>
        ELSE sep \o NewlineIndent(indent, level)
             \o EncodeMembers(ms, i + 1, indent, sep, level))

\* line 75-76: the default serializer.  bytes are not JSON serializable.
dumps(value) ==
    IF value.t = "bytes" THEN Raise("TypeError", "serializer", {value})
    ELSE Ret(PyStr(Encode(value, 2, <<",">>, 0)), "serializer", {value})

\* A serializer given in the field's configuration: json.dumps(value,
\* sort_keys=True), on one line.
compact_dumps(value) ==
    IF value.t = "bytes" THEN Raise("TypeError", "serializer", {value})
    ELSE Ret(PyStr(Encode(value, -1, <<",", " ">>, 0)), "serializer", {value})

----------------------------------------------------------------------------
(* json.loads, the field's default deserializer (line 79) *)

Whitespace == {" ", "\n", "\t", "\r"}
Digits == {"0", "1", "2", "3", "4", "5", "6", "7", "8", "9"}
DigitValue(c) == CHOOSE n \in 0..9 : Digit[n + 1] = c

\* The character an escape stands for.
Unescape == ("\"" :> "\"") @@ ("\\" :> "\\") @@ ("/" :> "/")
            @@ ("n" :> "\n") @@ ("t" :> "\t") @@ ("r" :> "\r")

\* The character at i, or "" past the end.
At(t, i) == IF i >= 1 /\ i <= Len(t) THEN t[i] ELSE ""

HasPrefix(t, i, lit) ==
    /\ i + Len(lit) - 1 <= Len(t)
    /\ SubSeq(t, i, i + Len(lit) - 1) = lit

ParseFail == [ok |-> FALSE, v |-> None, next |-> 0]
ParseOk(v, next) == [ok |-> TRUE, v |-> v, next |-> next]

RECURSIVE SkipWs(_, _)
SkipWs(t, i) == IF At(t, i) \in Whitespace THEN SkipWs(t, i + 1) ELSE i

RECURSIVE ParseString(_, _, _)

\* The escape whose character after the backslash is e.
StringEscape(t, i, got, e) ==
    IF e \in DOMAIN Unescape
    THEN ParseString(t, i + 2, got \o <<Unescape[e]>>)
    ELSE ParseFail

StringChar(t, i, got, c) ==
    CASE c = "" -> ParseFail
      [] c = "\"" -> ParseOk(PyStr(got), i + 1)
      [] c = "\\" -> StringEscape(t, i, got, At(t, i + 1))
      [] c \in {"\n", "\t", "\r"} -> ParseFail
      [] OTHER -> ParseString(t, i + 1, got \o <<c>>)

\* A string's characters from i, after the opening quote.
ParseString(t, i, got) == StringChar(t, i, got, At(t, i))

RECURSIVE ParseDigits(_, _, _)
ParseDigits(t, i, n) ==
    IF At(t, i) \in Digits THEN ParseDigits(t, i + 1, 10 * n + DigitValue(At(t, i)))
    ELSE ParseOk(PyInt(n), i)

Negated(r) == ParseOk(PyInt(0 - r.v.n), r.next)

\* The digits of an integer from j: 0|[1-9][0-9]*
ParseNatural(t, j) ==
    IF At(t, j) \notin Digits THEN ParseFail
    ELSE IF At(t, j) = "0" THEN ParseOk(PyInt(0), j + 1)
    ELSE ParseDigits(t, j, 0)

NegatedIfOk(r) == IF r.ok THEN Negated(r) ELSE ParseFail

\* An integer: -?(0|[1-9][0-9]*)
ParseNumber(t, i) ==
    IF At(t, i) = "-" THEN NegatedIfOk(ParseNatural(t, i + 1))
    ELSE ParseNatural(t, i)

\* kv with key k bound to v: of two members with one key the later stands.
DictPut(kv, k, v) == {m \in kv : m.k # k} \cup {Member(k, v)}

RECURSIVE ParseValue(_, _), ParseItems(_, _, _), ParseMembers(_, _, _)

\* After an item and the whitespace behind it: a comma and the next item, or
\* the end of the array.
ItemsSep(t, j, got) ==
    CASE At(t, j) = "," -> ParseItems(t, SkipWs(t, j + 1), got)
      [] At(t, j) = "]" -> ParseOk(PyList(got), j + 1)
      [] OTHER -> ParseFail

ItemsNext(t, r, got) ==
    IF ~r.ok THEN ParseFail
    ELSE ItemsSep(t, SkipWs(t, r.next), got \o <<r.v>>)

\* The items of an array from i, where an item must start.
ParseItems(t, i, got) == ItemsNext(t, ParseValue(t, i), got)

\* After a member and the whitespace behind it.
MembersSep(t, m, kv) ==
    CASE At(t, m) = "," -> ParseMembers(t, SkipWs(t, m + 1), kv)
      [] At(t, m) = "}" -> ParseOk(PyDict(kv), m + 1)
      [] OTHER -> ParseFail

MembersValue(t, k, r, got) ==
    IF ~r.ok THEN ParseFail
    ELSE MembersSep(t, SkipWs(t, r.next), DictPut(got, k, r.v))

MembersColon(t, k, j, got) ==
    IF At(t, j) # ":" THEN ParseFail
    ELSE MembersValue(t, k, ParseValue(t, SkipWs(t, j + 1)), got)

MembersKey(t, key, got) ==
    IF ~key.ok THEN ParseFail
    ELSE MembersColon(t, key.v.s, SkipWs(t, key.next), got)

\* The members of an object from i, where a key must start.
ParseMembers(t, i, got) ==
    IF At(t, i) # "\"" THEN ParseFail
    ELSE MembersKey(t, ParseString(t, i + 1, <<>>), got)

ArrayFrom(t, j) ==
    IF At(t, j) = "]" THEN ParseOk(PyList(<<>>), j + 1)
    ELSE ParseItems(t, j, <<>>)

ObjectFrom(t, j) ==
    IF At(t, j) = "}" THEN ParseOk(PyDict({}), j + 1)
    ELSE ParseMembers(t, j, {})

Literal(t, i, lit, v) ==
    IF HasPrefix(t, i, lit) THEN ParseOk(v, i + Len(lit)) ELSE ParseFail

\* The value that starts at i with character c.
ValueAt(t, i, c) ==
    CASE c = "n" -> Literal(t, i, <<"n", "u", "l", "l">>, None)
      [] c = "t" -> Literal(t, i, <<"t", "r", "u", "e">>, PyBool(TRUE))
      [] c = "f" -> Literal(t, i, <<"f", "a", "l", "s", "e">>, PyBool(FALSE))
      [] c = "\"" -> ParseString(t, i + 1, <<>>)
      [] c = "-" \/ c \in Digits -> ParseNumber(t, i)
      [] c = "[" -> ArrayFrom(t, SkipWs(t, i + 1))
      [] c = "{" -> ObjectFrom(t, SkipWs(t, i + 1))
      [] OTHER -> ParseFail

ParseValue(t, i) == ValueAt(t, i, At(t, i))

\* The whole text is one value between optional whitespace.
Whole(text, r) ==
    IF r.ok /\ SkipWs(text, r.next) = Len(text) + 1 THEN r ELSE ParseFail

Parse(text) == Whole(text, ParseValue(text, SkipWs(text, 1)))

\* The decoded value, or the error exc for a text that is not JSON.
Decoded(text, r, exc) ==
    IF r.ok THEN Ret(r.v, "deserializer", {PyStr(text)})
    ELSE Raise(exc, "deserializer", {PyStr(text)})

\* line 79: json.loads raises ValueError for what it cannot decode.
loads(text) == Decoded(text, Parse(text), "ValueError")

\* A deserializer given in the field's configuration whose error is not a
\* ValueError.
strict_loads(text) == Decoded(text, Parse(text), "DecodeError")

----------------------------------------------------------------------------
(* JSONField *)

\* lines 74-81: the field's configuration.  has_default is whether a default
\* was given; callable, whether it is one to call (default is then what the
\* call returns).
Field(null, has_default, callable, default, ser, deser) ==
    [null |-> null, has_default |-> has_default, callable |-> callable,
     default |-> default, serializer |-> ser, deserializer |-> deser]

\* lines 78-79: the serializer and deserializer of the field, json.dumps as
\* at line 76 and json.loads unless the configuration gives others.
serializer(f, value) ==
    IF f.serializer = "dumps" THEN dumps(value) ELSE compact_dumps(value)

deserializer(f, text) ==
    IF f.deserializer = "loads" THEN loads(text) ELSE strict_loads(text)

\* line 101: what `except ValueError` catches.
IsValueError(exc) == exc \in {"ValueError", "UnicodeDecodeError"}

\* lines 96-103: the try block's result r, or value itself when the block
\* raised a ValueError.
TryExcept(value, r) ==
    IF r.kind = "raise" /\ IsValueError(r.exc)
    THEN Ret(value, r.via, r.arg) ELSE r

\* lines 97-100: a str is deserialized, and so are bytes, decoded; for any
\* other value the block falls through to `return value`.
TryBlock(f, value) ==
    IF value.t = "str" THEN deserializer(f, value.s)
    ELSE IF value.t = "bytes" THEN deserializer(f, value.s)
    ELSE Ret(value, "none", {})

\* A to_python without the test for the empty string.
to_python_no_empty_check(f, value) == TryExcept(value, TryBlock(f, value))

\* A to_python that lets the deserializer's error through.
to_python_no_except(f, value) ==
    IF value = EmptyStr THEN Ret(None, "none", {}) ELSE TryBlock(f, value)

\* A to_python that returns what the column holds.
to_python_raw(f, value) ==
    IF value = EmptyStr THEN Ret(None, "none", {}) ELSE Ret(value, "none", {})

\* lines 89-103
to_python(f, value) ==
    IF value = EmptyStr THEN Ret(None, "none", {})
    ELSE TryExcept(value, TryBlock(f, value))

\* lines 115-116
from_db_value(f, value) == to_python(f, value)

\* What the text field's own conversion fn makes of a value: a str and None
\* are stored as they are; of another value, some text of it.
TextField(fn, value) ==
    Ret(IF value.t \in {"str", "None"} THEN value
        ELSE Val("text", 0, <<>>, <<value>>, {}),
        fn, {value})

\* A get_prep_value without the test for the empty string.
get_prep_value_no_empty_check(f, value) ==
    IF value.t \in {"dict", "list"} THEN serializer(f, value)
    ELSE TextField("TextField.get_prep_value", value)

\* lines 105-113
get_prep_value(f, value) ==
    IF value = EmptyStr THEN Ret(None, "none", {})
    ELSE IF value.t = "dict" \/ value.t = "list" THEN serializer(f, value)
    ELSE TextField("TextField.get_prep_value", value)

\* lines 126-132
get_db_prep_save(f, value) ==
    IF value = EmptyStr THEN Ret(None, "none", {})
    ELSE IF value.t = "dict" \/ value.t = "list" THEN serializer(f, value)
    ELSE TextField("TextField.get_db_prep_save", value)

\* A get_default that makes a string of the default, as the base field's does.
get_default_stringified(f) ==
    IF f.has_default THEN serializer(f, f.default) ELSE Ret(EmptyStr, "none", {})

\* lines 118-124
get_default(f) ==
    IF f.has_default
    THEN IF f.callable THEN Ret(f.default, "call", {}) ELSE Ret(f.default, "none", {})
    ELSE Ret(EmptyStr, "none", {})

\* A value_from_object that renders nothing for None, nullable or not.
value_from_object_any_null(f, value) ==
    IF value = None THEN Ret(None, "none", {}) ELSE serializer(f, value)

\* lines 134-138; value is the attribute of obj that the base field reads.
value_from_object(f, value) ==
    IF f.null /\ value = None THEN Ret(None, "none", {})
    ELSE serializer(f, value)

----------------------------------------------------------------------------
(* The values and texts the field is exercised with *)

Seqs(S, n) == UNION {[1..k -> S] : k \in 0..n}

StrSamples == {<<>>, <<"a">>, <<"\"">>, <<"a", "\\">>, <<"\n", "b">>}
IntSamples == {0 - 12, 0, 7, 105}
KeySamples == {<<>>, <<"a">>, <<"a", "b">>, <<"\"">>}

\* The JSON primitives.
Primitives ==
    {None, PyBool(TRUE), PyBool(FALSE)}
    \cup {PyInt(n) : n \in IntSamples} \cup {PyStr(x) : x \in StrSamples}

ListsOf(S) == {PyList(xs) : xs \in Seqs(S, MaxLen)}

\* Lists and dicts of primitives, and some of lists and dicts.
Flat == ListsOf(Primitives)
        \cup {PyDict({Member(k, g[k]) : k \in DOMAIN g}) :
                g \in UNION {[K -> Primitives] :
                               K \in {Q \in SUBSET KeySamples : Cardinality(Q) <= MaxLen}}}

Inner == {PyList(<<>>), PyDict({}), PyList(<<PyInt(7), PyStr(<<"a">>)>>),
          PyDict({Member(<<"a">>, PyInt(0)), Member(<<>>, None)})}

Nested == {PyList(<<x, y>>) : x, y \in Inner \cup {PyBool(TRUE)}}
          \cup {PyDict({Member(<<"a", "b">>, x), Member(<<"a">>, PyList(<<y>>))}) :
                  x, y \in Inner}

Containers == Flat \cup Nested

\* Texts a column may hold that no save of a list or dict wrote.
TextChars == {"[", "]", "{", "}", "\"", "1", ",", "a"}

TextSamples ==
    { <<"{", "\"", "a", "\"", ":", "1", "}">>,
      <<"{", "\"", "a", "\"", ":", "1", ",", "}">>,
      <<"{", "\"", "a", "\"", ":", "1", ",", "\"", "a", "\"", ":", "[", "]", "}">>,
      <<" ", "[", "1", " ", ",", "\n", "-", "1", "0", "]", " ">>,
      <<"[", "1", " ", "1", "]">>,
      <<"[", "0", "1", "]">>,
      <<"\"", "\\", "n", "\\", "\\", "\"">>,
      <<"\"", "\\", "a", "\"">>,
      <<"n", "u", "l", "l">>,
      <<"n", "u", "l">>,
      <<"-">>,
      <<"t", "r", "u", "e", " ", "1">> }

Texts == Seqs(TextChars, MaxTextLen) \cup TextSamples

\* Values that are neither list nor dict.
Others ==
    Primitives
    \cup {PyStr(t) : t \in TextSamples}
    \cup {PyTuple(<<>>), PyTuple(<<PyInt(7), PyStr(<<"a">>)>>),
          PyBytes(<<"[", "1", "]">>), PyBytes(<<"a">>)}

Values == Containers \cup Others

Fields ==
    { Field(FALSE, FALSE, FALSE, None, "dumps", "loads"),
      Field(TRUE, FALSE, FALSE, None, "dumps", "strict_loads"),
      Field(TRUE, TRUE, FALSE, PyDict({}), "dumps", "loads"),
      Field(FALSE, TRUE, FALSE, PyDict({Member(<<"a">>, PyInt(7))}), "compact_dumps", "loads"),
      Field(FALSE, TRUE, TRUE, PyList(<<>>), "dumps", "strict_loads"),
      Field(TRUE, TRUE, FALSE, None, "compact_dumps", "loads") }

NoResult == [kind |-> "none", v |-> None, exc |-> "", via |-> "none", arg |-> {}]

----------------------------------------------------------------------------
(* The field's operations.  A field is constructed, then one method is    *)
(* called on it; a row that was written is then read back.                *)

JsonInit ==
    /\ jfield \in Fields
    /\ column = {}
    /\ saved = {}
    /\ jop = "init"
    /\ jarg = {}
    /\ jres = NoResult
    /\ store = {}
    /\ nextPk = NumRows + 1
    /\ cache = [p \in Readers |-> [r \in Rows |-> {}]]
    /\ fetches = [p \in Readers |-> 0]
    /\ pc = [p \in Readers |-> "idle"]
    /\ acc = [p \in Readers |-> NoAccess]
    /\ last = [p \in Readers |-> NoOutcome]
    /\ returned = [p \in Readers |-> [r \in Rows |-> {}]]
    /\ accesses = [p \in Readers |-> 0]
    /\ raced = {}
    /\ faulted = {}

\* A model instance is saved with value as the field's attribute: the column
\* gets what get_db_prep_save returns.
Save(value) ==
    /\ jres' = get_db_prep_save(jfield, value)
    /\ column' = IF jres'.kind = "return" THEN {jres'.v} ELSE {}
    /\ saved' = {value}
    /\ jop' = "get_db_prep_save"
    /\ jarg' = {value}
    /\ UNCHANGED jfield

\* The column holds c, written by other means than a save of this field.
RawStore(c) ==
    /\ column' = {c}
    /\ saved' = {}
    /\ jop' = "raw"
    /\ jarg' = {}
    /\ jres' = NoResult
    /\ UNCHANGED jfield

\* The row is read: from_db_value converts the column.
Load ==
    /\ jop \in {"get_db_prep_save", "raw"}
    /\ \E c \in column :
         /\ c.t \in {"str", "None", "bytes"}
         /\ jres' = from_db_value(jfield, c)
         /\ jarg' = {c}
    /\ jop' = "from_db_value"
    /\ UNCHANGED <<jfield, column, saved>>

Call(op, arg, res) ==
    /\ jop' = op
    /\ jarg' = arg
    /\ jres' = res
    /\ column' = {}
    /\ saved' = {}
    /\ UNCHANGED jfield

Prep(value) == Call("get_prep_value", {value}, get_prep_value(jfield, value))

ToPython(value) == Call("to_python", {value}, to_python(jfield, value))

GetDefault == Call("get_default", {}, get_default(jfield))

ValueFromObject(value) ==
    Call("value_from_object", {value}, value_from_object(jfield, value))

Columns == {PyStr(t) : t \in Texts} \cup {None, PyBytes(<<"[", "1", "]">>), PyBytes(<<"a">>)}

\* A method is called on a field that was just constructed; Load follows a
\* write of the column.
Fresh == jop = "init"

SaveValue == Fresh /\ \E v \in Values : Save(v) /\ UNCHANGED relVars
StoreColumn == Fresh /\ \E c \in Columns : RawStore(c) /\ UNCHANGED relVars
LoadRow == Load /\ UNCHANGED relVars
CallGetPrepValue == Fresh /\ \E v \in Values : Prep(v) /\ UNCHANGED relVars
CallToPython == Fresh /\ \E v \in Values \cup Columns : ToPython(v) /\ UNCHANGED relVars
CallGetDefault == Fresh /\ GetDefault /\ UNCHANGED relVars
CallValueFromObject == Fresh /\ \E v \in Values : ValueFromObject(v) /\ UNCHANGED relVars

JsonNext ==
    \/ SaveValue
    \/ StoreColumn
    \/ LoadRow
    \/ CallGetPrepValue
    \/ CallToPython
    \/ CallGetDefault
    \/ CallValueFromObject

SpecJson == JsonInit /\ [][JsonNext]_<<jsonVars, relVars>>

----------------------------------------------------------------------------
(* Claims about the accessor *)

\* No access on r is in progress.
Quiet(r) == \A p \in Readers : acc[p].row # r

\* C1: an access that began when R had no related record and returned has
\* left exactly one related record for R, created with only the
\* back-reference given, by this access itself unless a racing reader
\* created it first, and returned an object of that record; and an access
\* on an instance that returned an object before creates nothing and
\* returns that same cached object, so that all the objects an instance's
\* accesses returned are one.
C1_FirstReadCreatesSecondReusesCached ==
    \A p \in Readers :
      LET e == last[p] IN
        /\ (e.kind = "return" /\ e.absent) =>
              /\ Cardinality(Related(store, e.row)) = 1
              /\ e.gocCalls = 1
              /\ Cardinality(e.obj) = 1
              /\ \A o \in e.obj :
                    /\ o.rec \in store
                    /\ o.rec.owner = e.row
                    /\ o.rec.kwargs = {"owner"}
                    /\ o.rec.creator \in Readers
                    /\ (e.inserted = 1) = (o.rec.creator = p)
              /\ e.inserted \in {0, 1}
        /\ (e.kind = "return" /\ e.prior >= 1) =>
              /\ e.inserted = 0
              /\ e.gocCalls = 0
              /\ e.obj = cache[p][e.row]
              /\ returned[p][e.row] = e.obj
        /\ \A r \in Rows : Cardinality(returned[p][r]) <= 1

\* C1's case: a reader's second read on an R whose related record its own
\* first read created.
C1_Witness ==
    \E p \in Readers :
      /\ last[p].kind = "return"
      /\ last[p].prior = 1
      /\ \E x \in last[p].existing : x.creator = p

\* C2: no record ever has two related records; and once the accesses of a
\* race on R (both readers saw R's related record absent before either
\* created it) are over, exactly one related record for R exists, unless
\* the store itself failed an insert; whenever an access on R has returned,
\* exactly one exists.
C2_RaceLeavesExactlyOne ==
    /\ \A r \in Rows : Cardinality(Related(store, r)) <= 1
    /\ \A r \in raced :
          /\ (Quiet(r) /\ r \notin faulted) => Cardinality(Related(store, r)) = 1
          /\ (\E p \in Readers : returned[p][r] # {}) =>
                Cardinality(Related(store, r)) = 1

\* C2's case: a race on R is over and both readers returned.
C2_Witness ==
    \E r \in raced :
      /\ Quiet(r)
      /\ r \notin faulted
      /\ \A p \in Readers : returned[p][r] # {} /\ last[p].row = r /\ last[p].absent

\* C9: an access in which get_or_create failed raised that failure and
\* returned no object; no access calls get_or_create more than once, and
\* none goes on after the failure.
C9_CreateFailurePropagates ==
    \A p \in Readers :
      /\ last[p].failed =>
            /\ last[p].kind = "raise"
            /\ last[p].exc = "DatabaseError"
            /\ last[p].obj = {}
            /\ last[p].inserted = 0
      /\ last[p].gocCalls <= 1
      /\ acc[p].gocCalls <= 1
      /\ ~acc[p].failed

\* C9's case: an access whose get_or_create failed has ended.
C9_Witness ==
    \E p \in Readers : last[p].failed /\ last[p].gocCalls = 1

\* C10: an access that began when R had a related record returned an object
\* of that record, without calling get_or_create and without changing the
\* store; and no record has more than one related record.
C10_ReadOfExistingChangesNothing ==
    /\ \A p \in Readers :
         LET e == last[p] IN
           (e.kind # "none" /\ ~e.absent) =>
              /\ e.kind = "return"
              /\ e.gocCalls = 0
              /\ e.inserted = 0
              /\ ~e.storeChanged
              /\ Cardinality(e.obj) = 1
              /\ \A o \in e.obj : o.rec \in e.existing /\ o.rec \in store
    /\ \A p \in Readers : (pc[p] # "idle" => acc[p].absent)
    /\ \A r \in Rows : Cardinality(Related(store, r)) <= 1

\* C10's case: a read on an R whose related record was there before any
\* accessor ran.
C10_Witness ==
    \E p \in Readers :
      /\ last[p].kind = "return"
      /\ ~last[p].absent
      /\ \E x \in last[p].existing : x.creator = "other"

----------------------------------------------------------------------------
(* Claims about JSONField *)

DefaultCodec == jfield.serializer = "dumps" /\ jfield.deserializer = "loads"

IsContainer(v) == v.t \in {"dict", "list"}

Null == <<"n", "u", "l", "l">>

\* C3: with the default serializer and deserializer, a dict or list that was
\* saved is read back from its row equal to itself, and what get_prep_value
\* makes of a dict or list is a string that to_python turns back into it.
C3_DecodeOfEncodeIsIdentity ==
    DefaultCodec =>
      /\ (jop = "from_db_value" /\ \E v \in saved : IsContainer(v)) =>
            /\ jres.kind = "return"
            /\ saved = {jres.v}
            /\ \A c \in column : c.t = "str" /\ c.s # <<>>
      /\ (jop = "get_prep_value" /\ \E v \in jarg : IsContainer(v)) =>
            /\ jres.kind = "return"
            /\ jres.v.t = "str"
            /\ to_python(jfield, jres.v).kind = "return"
            /\ jarg = {to_python(jfield, jres.v).v}

\* C3's case: a dict of two members, one under a key with a quote in it, was
\* saved and read back.
C3_Witness ==
    /\ DefaultCodec
    /\ jop = "from_db_value"
    /\ \E v \in saved :
         /\ v.t = "dict"
         /\ Cardinality(v.kv) = 2
         /\ \E m \in v.kv : m.k = <<"\"">> /\ m.v = PyStr(<<"\n", "b">>)
         /\ jres.v = v

\* C4: the empty string that was saved, or that the column holds, is read
\* back as None, without a call of the deserializer and without an error;
\* so is it converted by to_python.
C4_EmptyStringReadsAsNone ==
    /\ (jop = "from_db_value" /\ (saved = {EmptyStr} \/ column = {EmptyStr})) =>
          /\ jres.kind = "return"
          /\ jres.v = None
          /\ jres.via # "deserializer"
          /\ jres.exc = ""
    /\ (jop = "to_python" /\ jarg = {EmptyStr}) =>
          /\ jres.kind = "return"
          /\ jres.v = None
          /\ jres.via # "deserializer"
    /\ (jop = "get_db_prep_save" /\ jarg = {EmptyStr}) => column = {None}

\* C4's case: the empty string was saved and the row read back.
C4_Witness ==
    /\ jop = "from_db_value"
    /\ saved = {EmptyStr}
    /\ jres.v = None

\* The field's deserializer fails on the string c.
Undecodable(c) == c.t = "str" /\ deserializer(jfield, c.s).kind = "raise"

\* C5 as stated: every stored string that the deserializer cannot decode is
\* returned unchanged by to_python and from_db_value, and nothing is raised.
C5_AsStated ==
    (jop \in {"from_db_value", "to_python"}) =>
       \A c \in jarg : Undecodable(c) => (jres.kind = "return" /\ jres.v = c)

\* C5, amended: every stored string other than the empty one on which the
\* deserializer raises a ValueError is returned unchanged by to_python and
\* from_db_value, and nothing is raised.
C5_UndecodableStringReturned ==
    (jop \in {"from_db_value", "to_python"}) =>
       \A c \in jarg :
          (/\ Undecodable(c)
           /\ c # EmptyStr
           /\ IsValueError(deserializer(jfield, c.s).exc)) =>
             /\ jres.kind = "return"
             /\ jres.exc = ""
             /\ jres.v = c

\* C5's case: a row whose column is an object with a trailing comma is read
\* by a field with json.loads.
C5_Witness ==
    /\ jop = "from_db_value"
    /\ jfield.deserializer = "loads"
    /\ column = {PyStr(<<"{", "\"", "a", "\"", ":", "1", ",", "}">>)}
    /\ jres.kind = "return"
    /\ jres.v \in column

WriteOps == {"get_prep_value", "get_db_prep_save"}

\* The text field's conversion that the method jop hands a value to.
SuperOf(op) == IF op = "get_prep_value" THEN "TextField.get_prep_value"
               ELSE "TextField.get_db_prep_save"

\* C6 as stated: on write every mapping or sequence is encoded with the
\* field's serializer, and every other value is handed unchanged to the
\* text field's conversion.
C6_AsStated ==
    (jop \in WriteOps) =>
       \A v \in jarg :
          IF v.t \in {"dict", "list", "tuple"}
          THEN jres.via = "serializer" /\ jres.arg = {v}
          ELSE jres.via = SuperOf(jop) /\ jres.arg = {v}

\* C6, amended: on write every dict or list is encoded with the field's
\* serializer; the empty string becomes None without any conversion; every
\* other value, a tuple too, is handed unchanged to the text field's
\* conversion.
C6_WriteEncodesDictAndList ==
    (jop \in WriteOps) =>
       \A v \in jarg :
          CASE v = EmptyStr ->
                 jres.kind = "return" /\ jres.v = None /\ jres.via = "none"
            [] IsContainer(v) ->
                 /\ jres.via = "serializer"
                 /\ jres.arg = {v}
                 /\ jres.kind = "return"
                 /\ jres.v = PyStr(Encode(v, IF jfield.serializer = "dumps" THEN 2 ELSE 0 - 1,
                                          IF jfield.serializer = "dumps" THEN <<",">>
                                          ELSE <<",", " ">>, 0))
            [] OTHER ->
                 jres.via = SuperOf(jop) /\ jres.arg = {v}

\* C6's case: a tuple was saved, and went to the text field's conversion.
C6_Witness ==
    /\ jop = "get_db_prep_save"
    /\ jarg = {PyTuple(<<PyInt(7), PyStr(<<"a">>)>>)}
    /\ jres.via = "TextField.get_db_prep_save"
    /\ jres.arg = jarg

\* C7 as stated: get_default returns the configured default itself, or what
\* calling it returns; and for a field with no default given it returns a
\* raw structured value such as {}, not a string.
C7_AsStated ==
    (jop = "get_default") =>
       /\ jfield.has_default => jres.v = jfield.default
       /\ ~jfield.has_default => (jres.kind = "return" /\ jres.v.t # "str")

\* C7, amended: get_default returns the configured default itself, or what
\* calling it returns, never passed through the serializer; and for a field
\* with no default given it returns the empty string, which is no JSON text.
C7_GetDefaultIsRaw ==
    (jop = "get_default") =>
       /\ jres.kind = "return"
       /\ jres.via # "serializer"
       /\ jfield.has_default =>
             /\ jres.v = jfield.default
             /\ (jres.via = "call") = jfield.callable
       /\ ~jfield.has_default =>
             /\ jres.v = EmptyStr
             /\ ~Parse(jres.v.s).ok

\* C7's case: the default of a field constructed without one was read.
C7_Witness ==
    /\ jop = "get_default"
    /\ ~jfield.has_default
    /\ jres.v = EmptyStr

\* C8: value_from_object returns the serializer's result for the attribute's
\* value, for None too on a field that is not nullable; only for None on a
\* nullable field it returns None and the serializer is not called.
C8_ValueFromObjectSerializes ==
    (jop = "value_from_object") =>
       \A v \in jarg :
          IF jfield.null /\ v = None
          THEN jres.kind = "return" /\ jres.v = None /\ jres.via # "serializer"
          ELSE /\ jres.via = "serializer"
               /\ jres.arg = {v}
               /\ jres = serializer(jfield, v)
               /\ (v = None) => jres.v = PyStr(Null)

\* C8's case: None on a field that is not nullable was rendered as "null".
C8_Witness ==
    /\ jop = "value_from_object"
    /\ ~jfield.null
    /\ jarg = {None}
    /\ jres.v = PyStr(Null)

====
